---- MODULE Spec2Model ----
(***************************************************************************)
(* Article approval workflow of the Dispatch news application: the role   *)
(* model, the permission classes, the approve / edit / reject handlers of *)
(* the REST API and of the HTML views, Article.save with its pre_save and *)
(* post_save signal handlers, and the notification fan-out.               *)
(*                                                                         *)
(* Two specifications share the store:                                     *)
(*   Spec      every request handler runs as one atomic step (requests    *)
(*             served one after the other);                               *)
(*   SpecConc  approve requests of two server workers run step by step    *)
(*             (read, pre_save re-fetch, write, post_save, social post)   *)
(*             and interleave freely: the code takes no lock and opens no *)
(*             transaction around them.                                   *)
(***************************************************************************)
EXTENDS Integers, Sequences, FiniteSets, TLC

(* ---------------------------------------------------------------------- *)
(* Identity and role model (models.py, CustomUser)                        *)
(* ---------------------------------------------------------------------- *)
READER == "reader"

EDITOR == "editor"

JOURNALIST == "journalist"

Editors == {"e1", "e2"}

Journalists == {"j1", "j2"}

Readers == {"r1"}

Users == Editors \cup Journalists \cup Readers

role == [u \in Users |-> IF u \in Editors THEN EDITOR
                          ELSE IF u \in Journalists THEN JOURNALIST
                          ELSE READER]

\* is_active and email of the stored users (AbstractUser fields).
is_active == [u \in Users |-> TRUE]

has_email == [u \in Users |-> TRUE]

Publishers == {"p1"}

\* A null foreign key / a field missing from a request payload.
None == "none"

Absent == "absent"

\* A null DateTimeField; clock readings start at 1.
NoTime == 0

(* ---------------------------------------------------------------------- *)
(* Bounds                                                                  *)
(* ---------------------------------------------------------------------- *)
\* Newsletters the model lets the journalists create.
MaxNewsletters == 1

\* Readings of timezone.now(): 1..MaxClock.
MaxClock == 2

Times == 1..MaxClock

\* Every handler addresses one Article row by its primary key and reads and
\* writes no other row: the model follows the row with primary key 1.
ArticleIds == {1}

Titles == {"t1", "t2"}

Contents == {"c1", "c2"}

\* The two server workers of SpecConc.
Workers == {"w1", "w2"}

VARIABLES
    articles,                \* the Article table: primary key -> row
    nextId,                  \* next auto-increment primary key
    subscribed_publishers,   \* user -> set of publishers
    subscribed_journalists,  \* user -> set of users
    response,                \* what the last request handler did and returned
    pc,                      \* SpecConc: worker -> position in its request
    loc,                     \* SpecConc: worker -> locals of its request
    listing,                 \* the primary keys the last list request returned
    newsletters,             \* the Newsletter table: primary key -> row
    accounts,                \* the CustomUser table: user -> is_active, email
    outbox,                  \* the recipient_list of the last send_mail call
    tweet_text,              \* the text composed for the last social post
    newsletter_data          \* what the last newsletter view handed out

\* The variables of the notification channels.
notifyVars == <<accounts, outbox, tweet_text>>

vars == <<articles, nextId, subscribed_publishers, subscribed_journalists,
          response, pc, loc, listing, newsletters, accounts, outbox,
          tweet_text, newsletter_data>>

(* ---------------------------------------------------------------------- *)
(* Article rows and model validation (models.py, Article)                 *)
(* ---------------------------------------------------------------------- *)
EmptyStore == [i \in {} |-> i]

\* A new Article instance: approved defaults to False, approval fields null.
NewArticle(title, content, author, publisher) ==
    [title |-> title, content |-> content, author |-> author,
     publisher |-> publisher, approved |-> FALSE, approved_by |-> None,
     approved_at |-> NoTime]

\* Faulty variant: the source of the article is not validated.
clean_lenient(inst) == TRUE

\* Article.clean: an author or a publisher, not both, not neither.
clean(inst) ==
    /\ ~(inst.author # None /\ inst.publisher # None)
    /\ ~(inst.author = None /\ inst.publisher = None)

\* Article.save runs full_clean first: the foreign keys are validated against
\* their limit_choices_to (author a journalist, approved_by an editor), then
\* clean() is run.
full_clean(inst) ==
    /\ (inst.author # None => role[inst.author] = JOURNALIST)
    /\ (inst.approved_by # None => role[inst.approved_by] = EDITOR)
    /\ clean(inst)

(* ---------------------------------------------------------------------- *)
(* Permission classes (permissions.py) and view helpers (views.py)        *)
(* ---------------------------------------------------------------------- *)
\* Faulty variant: the permission class of the modify actions is used.
IsEditorOrJournalist(u) == role[u] \in {EDITOR, JOURNALIST}

IsJournalist(u) == role[u] = JOURNALIST

\* Faulty variant: the test of the editors' views lets journalists in.
is_editor_or_journalist(u) == role[u] \in {EDITOR, JOURNALIST}

is_editor(u) == role[u] = EDITOR

is_journalist(u) == role[u] = JOURNALIST

\* Faulty variant: the readers' test lets editors in.
is_reader_or_editor(u) == role[u] \in {READER, EDITOR}

is_reader(u) == role[u] = READER

\* Faulty variant: a journalist may modify any article.
CanModifyArticle_any_journalist(u, obj) == role[u] \in {EDITOR, JOURNALIST}

\* CanModifyArticle.has_object_permission for an unsafe method.
CanModifyArticle(u, obj) ==
    IF role[u] = EDITOR THEN TRUE
    ELSE IF role[u] = JOURNALIST THEN obj.author = u
    ELSE FALSE

\* Faulty variant: every member of the newsroom may approve.
CanApproveArticle_newsroom(u) == role[u] \in {EDITOR, JOURNALIST}

\* CanApproveArticle.has_permission / has_object_permission.
CanApproveArticle(u) == role[u] = EDITOR

\* A request without credentials.
Anonymous == "anon"

Actors == Users \cup {Anonymous}

is_authenticated(u) == u \in Users

\* CanViewArticle.has_object_permission.
CanViewArticle(u, obj) ==
    IF ~is_authenticated(u) THEN FALSE
    ELSE IF role[u] = EDITOR THEN TRUE
    ELSE IF obj.approved THEN TRUE
    ELSE IF role[u] = JOURNALIST /\ obj.author = u THEN TRUE
    ELSE FALSE

\* Faulty variant: the queryset is not filtered by role.
get_queryset_unfiltered(u, store) == DOMAIN store

\* ArticleViewSet.get_queryset: the rows a user's API requests can address.
get_queryset(u, store) ==
    IF role[u] = READER THEN {i \in DOMAIN store : store[i].approved}
    ELSE IF role[u] = JOURNALIST
         THEN {i \in DOMAIN store : store[i].approved \/ store[i].author = u}
    ELSE DOMAIN store

(* ---------------------------------------------------------------------- *)
(* Signals (signals.py)                                                    *)
(* ---------------------------------------------------------------------- *)
\* Faulty variant: the approval is never noticed.
track_approval_changes_never(store, pk, inst) == FALSE

\* Faulty variant: the stored row is not compared, any save of an approved
\* instance counts as its approval.
track_approval_changes_flag(store, pk, inst) == inst.approved

\* pre_save: re-fetch the stored row and compare; pk 0 is an unsaved
\* instance, a missing row is Article.DoesNotExist.
track_approval_changes(store, pk, inst) ==
    IF pk \in DOMAIN store
    THEN (~store[pk].approved) /\ inst.approved
    ELSE FALSE

\* The CustomUser rows when the article handlers start: is_active and whether
\* email is a non-empty string.
StoredAccounts ==
    [u \in Users |-> [is_active |-> is_active[u], has_email |-> has_email[u]]]

\* No newsletter was viewed.
NoNewsletterData == [id |-> 0]

\* No social post was composed: the lengths of title, source name, content
\* and composed text.
NoTweet == [title |-> 0, source_name |-> 0, content |-> 0, text |-> 0]

\* Readers subscribed to the article's source, active ones only.
get_article_subscribers(inst) ==
    IF inst.author # None
    THEN {u \in Users : /\ inst.author \in subscribed_journalists[u]
                        /\ role[u] = READER
                        /\ accounts[u].is_active}
    ELSE IF inst.publisher # None
    THEN {u \in Users : /\ inst.publisher \in subscribed_publishers[u]
                        /\ role[u] = READER
                        /\ accounts[u].is_active}
    ELSE {}

\* Faulty variant: every subscriber is a recipient, with or without an
\* address.
recipient_emails_unfiltered(subscribers) == subscribers

\* The recipient_list handed to send_mail: the subscribers whose email is a
\* non-empty string.
recipient_emails(subscribers) == {u \in subscribers : accounts[u].has_email}

\* Outcome of the email channel: mail is what send_mail does ("ok" or "fail").
send_email_to_subscribers(inst, mail) ==
    LET subscribers == get_article_subscribers(inst)
    IN  IF subscribers = {} THEN "skipped"
        ELSE IF recipient_emails(subscribers) = {} THEN "skipped"
        ELSE IF mail = "ok" THEN "sent"
        ELSE "raised"

\* Outcome of the social-post channel: creds is the state of the settings,
\* api what the HTTP call does ("created" is status 201).
post_to_twitter(creds, api) ==
    IF creds = "absent" THEN "skipped"
    ELSE IF creds = "placeholder" THEN "skipped"
    ELSE IF api = "created" THEN "posted"
    ELSE "raised"

\* Faulty variant: the social post is tried first, and its exception leaves
\* the block before the email.
fan_out_social_first(inst, env) ==
    LET t == post_to_twitter(env.creds, env.api)
    IN  IF t = "raised"
        THEN [email |-> "none", tweet |-> "raised"]
        ELSE [email |-> send_email_to_subscribers(inst, env.mail), tweet |-> t]

\* The try block of handle_article_approval: email first, then the social
\* post; an exception of the email channel leaves the block.
fan_out(inst, env) ==
    LET e == send_email_to_subscribers(inst, env.mail)
    IN  IF e = "raised"
        THEN [email |-> "raised", tweet |-> "none"]
        ELSE [email |-> e, tweet |-> post_to_twitter(env.creds, env.api)]

\* What the environment does during one request that approves: the store
\* accepts the write or raises, what timezone.now() reads and what the two
\* channels do. A request that approves nothing reads no clock and reaches
\* no channel; its write is accepted.
Envs(fanout) ==
    IF fanout
    THEN [db : {FALSE}, now : {1}, mail : {"ok"}, creds : {"absent"},
          api : {"created"}]
         \cup
         [db : {TRUE}, now : Times, mail : {"ok", "fail"},
          creds : {"absent", "placeholder"}, api : {"created"}]
         \cup
         [db : {TRUE}, now : Times, mail : {"ok", "fail"},
          creds : {"real"}, api : {"created", "failed"}]
    ELSE [db : {TRUE}, now : {1}, mail : {"ok"}, creds : {"absent"},
          api : {"created"}]

\* Faulty variant: the write is lost.
write_row_lost(store, key, inst) == store

\* The row written by Model.save: an UPDATE of the row pk, an INSERT when the
\* instance is new (key is then the fresh primary key).
write_row(store, key, inst) == (key :> inst) @@ store

\* Faulty variant: the handler does not look at the flag of the pre_save
\* handler, every save of an approved instance runs the channels.
handle_article_approval_always(store, key, inst, just, env) ==
    IF ~inst.approved
    THEN [articles |-> store, email |-> "none", tweet |-> "none"]
    ELSE LET f == fan_out(inst, env)
         IN  [articles |-> store, email |-> f.email, tweet |-> f.tweet]

\* post_save: nothing unless the pre_save handler saw the approval; then the
\* timestamp is filled in when missing and the channels are tried.
handle_article_approval(store, key, inst, just, env) ==
    IF ~just
    THEN [articles |-> store, email |-> "none", tweet |-> "none"]
    ELSE LET stamped == IF inst.approved_at = NoTime
                        THEN [store EXCEPT ![key].approved_at = env.now]
                        ELSE store
             f == fan_out(inst, env)
         IN  [articles |-> stamped, email |-> f.email, tweet |-> f.tweet]

\* Faulty variant: an exception of a channel leaves save() after the write.
save_raising(store, pk, newpk, inst, env) ==
    LET just == track_approval_changes(store, pk, inst)
        key == IF pk = 0 THEN newpk ELSE pk
    IN  IF ~full_clean(inst) \/ ~env.db
        THEN [ok |-> FALSE, articles |-> store, email |-> "none", tweet |-> "none"]
        ELSE LET h == handle_article_approval(write_row(store, key, inst),
                                              key, inst, just, env)
             IN  [ok |-> h.email # "raised" /\ h.tweet # "raised",
                  articles |-> h.articles, email |-> h.email, tweet |-> h.tweet]

\* Article.save: full_clean, pre_save, the write, post_save. pk = 0 is a new
\* instance, stored under newpk. ok = FALSE: an exception left save() before
\* the write.
save(store, pk, newpk, inst, env) ==
    LET just == track_approval_changes(store, pk, inst)
        key == IF pk = 0 THEN newpk ELSE pk
    IN  IF ~full_clean(inst)
        THEN [ok |-> FALSE, articles |-> store, email |-> "none", tweet |-> "none"]
        ELSE IF ~env.db
        THEN [ok |-> FALSE, articles |-> store, email |-> "none", tweet |-> "none"]
        ELSE LET h == handle_article_approval(write_row(store, key, inst),
                                              key, inst, just, env)
             IN  [ok |-> TRUE, articles |-> h.articles,
                  email |-> h.email, tweet |-> h.tweet]

\* What the last handler was and did: the operation, the requesting user,
\* the kind of response (ok; forbidden = 403; access_denied = the redirect to
\* /access-denied/; not_found = 404; invalid = 400; already_approved; error =
\* an exception of save) and what the two notification channels did during it.
Resp(op, actor, outcome, email, tweet) ==
    [op |-> op, actor |-> actor, outcome |-> outcome, email |-> email,
     tweet |-> tweet]

\* The subscriptions of reader r1 when Spec starts: the subscription handlers
\* touch no article and no article handler touches a subscription, so Spec
\* starts from a subscription state and leaves the toggles to SpecSubs.
SubscriptionConfigs ==
    {[publishers |-> {}, journalists |-> {}],
     [publishers |-> {"p1"}, journalists |-> {"j1"}]}

\* The locals of one approve request of SpecConc, before it starts: the
\* requesting user, the addressed primary key, the instance get_object
\* returned, the flag of the pre_save handler, whether save() wrote, the
\* response and what the channels did.
NoLocals ==
    [op |-> "none", actor |-> None, pk |-> 0,
     inst |-> NewArticle(Absent, Absent, None, None),
     just |-> FALSE, written |-> FALSE, seq |-> 0, outcome |-> "none",
     email |-> "none", tweet |-> "none"]

Init ==
    /\ articles = EmptyStore
    /\ nextId = 1
    /\ \E c \in SubscriptionConfigs :
          /\ subscribed_publishers =
                [u \in Users |-> IF u = "r1" THEN c.publishers ELSE {}]
          /\ subscribed_journalists =
                [u \in Users |-> IF u = "r1" THEN c.journalists ELSE {}]
    /\ response = Resp("none", None, "none", "none", "none")
    /\ pc = [w \in Workers |-> "idle"]
    /\ loc = [w \in Workers |-> NoLocals]
    /\ listing = <<>>
    /\ newsletters = <<>>
    /\ accounts = StoredAccounts
    /\ outbox = {}
    /\ tweet_text = NoTweet
    /\ newsletter_data = NoNewsletterData

(* ---------------------------------------------------------------------- *)
(* Request payloads                                                        *)
(* ---------------------------------------------------------------------- *)
\* POST /api/articles/: the payload of a create request. An author of None
\* is an explicit null; "e1" is a user who is no journalist; approved is a
\* key ArticleCreateSerializer does not list.
CreateData ==
    [title : Titles, content : Contents, author : Journalists,
     publisher : {Absent}, approved : {Absent}]
    \cup
    [title : {"t1"}, content : {"c1"},
     author : {Absent, None, "j1", "j2", "e1"},
     publisher : {Absent} \cup Publishers, approved : {Absent}]
    \cup
    [title : {Absent}, content : {"c1"}, author : {"j1"}, publisher : {Absent},
     approved : {Absent}]
    \cup
    [title : {"t1"}, content : {"c2"}, author : Journalists,
     publisher : {Absent}, approved : {"true"}]

\* Faulty variant: the create serializer takes the approved key as well.
serializer_create_approved(d, author, publisher) ==
    [NewArticle(d.title, d.content, author, publisher)
        EXCEPT !.approved = (d.approved = "true")]

\* serializer.save() of ArticleCreateSerializer: the instance is built from
\* its fields title, content, author and publisher; every other key of the
\* payload is dropped.
serializer_create(d, author, publisher) ==
    NewArticle(d.title, d.content, author, publisher)

NoChange ==
    [title |-> Absent, content |-> Absent, author |-> Absent,
     publisher |-> Absent, approved |-> Absent]

\* PUT/PATCH /api/articles/<id>/: the writable fields of
\* ArticleDetailSerializer (title, content, author, publisher, approved).
\* The payloads touch the text, the source or the approved flag.
UpdateData ==
    {[NoChange EXCEPT !.title = t, !.content = c] :
        t \in Titles \cup {Absent}, c \in Contents \cup {Absent}}
    \cup
    {[NoChange EXCEPT !.author = x, !.publisher = y] :
        x \in {Absent, None, "j1", "j2", "e1"}, y \in {Absent, None} \cup Publishers}
    \cup
    {[NoChange EXCEPT !.approved = b] : b \in {"true", "false"}}

(* ---------------------------------------------------------------------- *)
(* REST API handlers (api_views.py, ArticleViewSet)                        *)
(* ---------------------------------------------------------------------- *)
\* POST /api/articles/ by a journalist with the payload d: the serializer's
\* validation, perform_create and the save.
ApiCreateData(u, d) ==
    LET author == IF d.author = Absent THEN None ELSE d.author
        publisher == IF d.publisher = Absent THEN None ELSE d.publisher
        \* perform_create: a journalist who sent no author field is
        \* the author
        inst == serializer_create(d, IF d.author = Absent THEN u
                                     ELSE d.author, publisher)
    IN  IF \/ d.title = Absent
           \/ (author # None /\ role[author] # JOURNALIST)
           \/ (author # None /\ publisher # None)
           \/ (author = None /\ publisher = None)
           \/ (author # None /\ author # u)
        THEN /\ response' = Resp("create", u, "invalid", "none", "none")
             /\ UNCHANGED <<articles, nextId>>
        ELSE \E env \in Envs(FALSE) :
             LET r == save(articles, 0, nextId, inst, env)
             IN  IF r.ok
                 THEN /\ nextId \in ArticleIds
                      /\ articles' = r.articles
                      /\ nextId' = nextId + 1
                      /\ response' = Resp("create", u, "ok",
                                          r.email, r.tweet)
                 ELSE /\ response' = Resp("create", u, "error",
                                          "none", "none")
                      /\ UNCHANGED <<articles, nextId>>

\* POST /api/articles/
ApiCreate(u) ==
    /\ UNCHANGED <<subscribed_publishers, subscribed_journalists, pc, loc,
                   listing, newsletters, notifyVars, newsletter_data>>
    /\ IF ~IsJournalist(u)
       THEN /\ response' = Resp("create", u, "forbidden", "none", "none")
            /\ UNCHANGED <<articles, nextId>>
       ELSE \E d \in CreateData : ApiCreateData(u, d)

\* PUT/PATCH /api/articles/<id>/
ApiUpdate(u, a) ==
    /\ UNCHANGED <<nextId, subscribed_publishers, subscribed_journalists, pc, loc,
                   listing, newsletters, notifyVars, newsletter_data>>
    /\ IF a \notin get_queryset(u, articles)
       THEN /\ response' = Resp("update", u, "not_found", "none", "none")
            /\ UNCHANGED articles
       ELSE IF ~CanModifyArticle(u, articles[a])
       THEN /\ response' = Resp("update", u, "forbidden", "none", "none")
            /\ UNCHANGED articles
       ELSE \E d \in UpdateData :
            LET row == articles[a]
                author == IF d.author = Absent THEN row.author ELSE d.author
                publisher == IF d.publisher = Absent THEN row.publisher
                             ELSE d.publisher
                inst == [title |-> IF d.title = Absent THEN row.title ELSE d.title,
                         content |-> IF d.content = Absent THEN row.content
                                     ELSE d.content,
                         author |-> author,
                         publisher |-> publisher,
                         approved |-> IF d.approved = Absent THEN row.approved
                                      ELSE d.approved = "true",
                         approved_by |-> row.approved_by,
                         approved_at |-> row.approved_at]
            IN  IF \/ (d.author \notin {Absent, None} /\ role[d.author] # JOURNALIST)
                   \/ (author # None /\ publisher # None)
                   \/ (author = None /\ publisher = None)
                THEN /\ response' = Resp("update", u, "invalid", "none", "none")
                     /\ UNCHANGED articles
                ELSE \E env \in Envs(track_approval_changes(articles, a, inst)) :
                     LET r == save(articles, a, a, inst, env)
                     IN  /\ articles' = r.articles
                         /\ response' = Resp("update", u,
                                             IF r.ok THEN "ok" ELSE "error",
                                             r.email, r.tweet)

\* DELETE /api/articles/<id>/
ApiDestroy(u, a) ==
    /\ UNCHANGED <<nextId, subscribed_publishers, subscribed_journalists, pc, loc,
                   listing, newsletters, notifyVars, newsletter_data>>
    /\ IF a \notin get_queryset(u, articles)
       THEN /\ response' = Resp("delete", u, "not_found", "none", "none")
            /\ UNCHANGED articles
       ELSE IF ~CanModifyArticle(u, articles[a])
       THEN /\ response' = Resp("delete", u, "forbidden", "none", "none")
            /\ UNCHANGED articles
       ELSE /\ articles' = [i \in DOMAIN articles \ {a} |-> articles[i]]
            /\ response' = Resp("delete", u, "ok", "none", "none")

\* Faulty variant: the approve handlers do not look at the approved flag.
already_approved_unchecked(row) == FALSE

\* The check of both approve handlers before they touch the article.
already_approved(row) == row.approved

\* Faulty variant: the approving editor is not recorded.
approved_instance_anonymous(row, u, t) ==
    [row EXCEPT !.approved = TRUE, !.approved_at = t]

\* The assignments of both approve handlers before article.save().
approved_instance(row, u, t) ==
    [row EXCEPT !.approved = TRUE, !.approved_by = u, !.approved_at = t]

\* POST /api/articles/<id>/approve/
ApiApprove(u, a) ==
    /\ UNCHANGED <<nextId, subscribed_publishers, subscribed_journalists, pc, loc,
                   listing, newsletters, notifyVars, newsletter_data>>
    /\ IF ~CanApproveArticle(u)
       THEN /\ response' = Resp("approve", u, "forbidden", "none", "none")
            /\ UNCHANGED articles
       ELSE IF a \notin get_queryset(u, articles)
       THEN /\ response' = Resp("approve", u, "not_found", "none", "none")
            /\ UNCHANGED articles
       ELSE IF already_approved(articles[a])
       THEN /\ response' = Resp("approve", u, "already_approved",
                                "none", "none")
            /\ UNCHANGED articles
       ELSE \E env \in Envs(TRUE) :
                LET inst == approved_instance(articles[a], u, env.now)
                    r == save(articles, a, a, inst, env)
                IN  /\ articles' = r.articles
                    /\ response' = Resp("approve", u,
                                        IF r.ok THEN "ok" ELSE "error",
                                        r.email, r.tweet)

(* ---------------------------------------------------------------------- *)
(* HTML views (views.py)                                                   *)
(* ---------------------------------------------------------------------- *)
\* create_article: a non-journalist is redirected to /access-denied/. The
\* form has title, content and an optional publisher; is_valid() builds the
\* instance from them and runs the model validation on it, Article.clean
\* included, before the view sets the author. An exception of save() is not
\* caught.
WebCreate(u) ==
    /\ UNCHANGED <<subscribed_publishers, subscribed_journalists, pc, loc,
                   listing, newsletters, notifyVars, newsletter_data>>
    /\ IF ~is_journalist(u)
       THEN /\ response' = Resp("create", u, "access_denied", "none", "none")
            /\ UNCHANGED <<articles, nextId>>
       ELSE \E title \in Titles, content \in Contents,
               publisher \in {None} \cup Publishers :
            LET form == NewArticle(title, content, None, publisher)
                inst == [form EXCEPT !.author = u]
            IN  IF ~clean(form)
                THEN /\ response' = Resp("create", u, "invalid", "none", "none")
                     /\ UNCHANGED <<articles, nextId>>
                ELSE \E env \in Envs(FALSE) :
                     LET r == save(articles, 0, nextId, inst, env)
                     IN  IF r.ok
                         THEN /\ nextId \in ArticleIds
                              /\ articles' = r.articles
                              /\ nextId' = nextId + 1
                              /\ response' = Resp("create", u, "ok",
                                                  r.email, r.tweet)
                         ELSE /\ response' = Resp("create", u, "error",
                                                  "none", "none")
                              /\ UNCHANGED <<articles, nextId>>

\* approve_article
WebApprove(u, a) ==
    /\ UNCHANGED <<nextId, subscribed_publishers, subscribed_journalists, pc, loc,
                   listing, newsletters, notifyVars, newsletter_data>>
    /\ IF ~is_editor(u)
       THEN /\ response' = Resp("approve", u, "access_denied", "none", "none")
            /\ UNCHANGED articles
       ELSE IF a \notin DOMAIN articles
       THEN /\ response' = Resp("approve", u, "not_found", "none", "none")
            /\ UNCHANGED articles
       ELSE IF already_approved(articles[a])
       THEN /\ response' = Resp("approve", u, "already_approved",
                                "none", "none")
            /\ UNCHANGED articles
       ELSE \E env \in Envs(TRUE) :
                LET inst == approved_instance(articles[a], u, env.now)
                    r == save(articles, a, a, inst, env)
                IN  /\ articles' = r.articles
                    /\ response' = Resp("approve", u,
                                        IF r.ok THEN "ok" ELSE "error",
                                        r.email, r.tweet)

\* reject_article
WebReject(u, a) ==
    /\ UNCHANGED <<nextId, subscribed_publishers, subscribed_journalists, pc, loc,
                   listing, newsletters, notifyVars, newsletter_data>>
    /\ IF ~is_editor(u)
       THEN /\ response' = Resp("reject", u, "access_denied", "none", "none")
            /\ UNCHANGED articles
       ELSE IF a \notin DOMAIN articles
       THEN /\ response' = Resp("reject", u, "not_found", "none", "none")
            /\ UNCHANGED articles
       ELSE /\ articles' = [i \in DOMAIN articles \ {a} |-> articles[i]]
            /\ response' = Resp("reject", u, "ok", "none", "none")

\* Faulty variant: the toggle only ever subscribes.
toggle_subscription_add(edges, target) == edges \cup {target}

\* The toggle of both subscription views: remove(target) when the target is
\* in the user's set, add(target) otherwise.
toggle_subscription(edges, target) ==
    IF target \in edges THEN edges \ {target} ELSE edges \cup {target}

\* toggle_publisher_subscription: login_required, readers only, and the
\* publisher is looked up (get_object_or_404).
TogglePublisher(u, p) ==
    /\ UNCHANGED <<articles, nextId, subscribed_journalists, pc, loc,
                   listing, newsletters, notifyVars, newsletter_data>>
    /\ IF ~is_authenticated(u)
       THEN /\ response' = Resp("toggle_publisher", u, "unauthenticated",
                                "none", "none")
            /\ UNCHANGED subscribed_publishers
       ELSE IF ~is_reader(u)
       THEN /\ response' = Resp("toggle_publisher", u, "readers_only",
                                "none", "none")
            /\ UNCHANGED subscribed_publishers
       ELSE IF p \notin Publishers
       THEN /\ response' = Resp("toggle_publisher", u, "not_found",
                                "none", "none")
            /\ UNCHANGED subscribed_publishers
       ELSE /\ subscribed_publishers' =
                [subscribed_publishers EXCEPT
                    ![u] = toggle_subscription(@, p)]
            /\ response' = Resp("toggle_publisher", u, "ok", "none", "none")

\* Faulty variant: the target is looked up among all users.
journalist_or_404_any_role(j) == j \in Users

\* get_object_or_404(CustomUser, pk=journalist_id, role=JOURNALIST): whether
\* the lookup finds a row.
journalist_or_404(j) == j \in Users /\ role[j] = JOURNALIST

\* toggle_journalist_subscription: login_required, readers only, and the
\* target is looked up among the journalists.
ToggleJournalist(u, j) ==
    /\ UNCHANGED <<articles, nextId, subscribed_publishers, pc, loc,
                   listing, newsletters, notifyVars, newsletter_data>>
    /\ IF ~is_authenticated(u)
       THEN /\ response' = Resp("toggle_journalist", u, "unauthenticated",
                                "none", "none")
            /\ UNCHANGED subscribed_journalists
       ELSE IF ~is_reader(u)
       THEN /\ response' = Resp("toggle_journalist", u, "readers_only",
                                "none", "none")
            /\ UNCHANGED subscribed_journalists
       ELSE IF ~journalist_or_404(j)
       THEN /\ response' = Resp("toggle_journalist", u, "not_found",
                                "none", "none")
            /\ UNCHANGED subscribed_journalists
       ELSE /\ subscribed_journalists' =
                [subscribed_journalists EXCEPT
                    ![u] = toggle_subscription(@, j)]
            /\ response' = Resp("toggle_journalist", u, "ok", "none", "none")

(* ---------------------------------------------------------------------- *)
(* Spec: requests served one at a time                                     *)
(* ---------------------------------------------------------------------- *)
Next ==
    \/ \E u \in Users : ApiCreate(u)
    \/ \E u \in Users, a \in ArticleIds : ApiUpdate(u, a)
    \/ \E u \in Users, a \in ArticleIds : ApiDestroy(u, a)
    \/ \E u \in Users, a \in ArticleIds : ApiApprove(u, a)
    \/ \E u \in Users : WebCreate(u)
    \/ \E u \in Users, a \in ArticleIds : WebApprove(u, a)
    \/ \E u \in Users, a \in ArticleIds : WebReject(u, a)

Spec == Init /\ [][Next]_vars

(* ---------------------------------------------------------------------- *)
(* SpecSubs: the subscription handlers                                     *)
(* ---------------------------------------------------------------------- *)
\* A primary key of no stored row.
NoRow == "nobody"

NextSubs ==
    \/ \E u \in Actors, p \in Publishers \cup {NoRow} : TogglePublisher(u, p)
    \/ \E u \in Actors, j \in Users \cup {NoRow} : ToggleJournalist(u, j)

SpecSubs == Init /\ [][NextSubs]_vars

(* ---------------------------------------------------------------------- *)
(* SpecToggle: the subscription handlers, started from any stored          *)
(* subscriptions of the reader and of an editor (the storage takes         *)
(* subscriptions for every role)                                           *)
(* ---------------------------------------------------------------------- *)
SubscribedUsers == {"r1", "e1"}

InitToggle ==
    /\ articles = EmptyStore
    /\ nextId = 1
    /\ \E sp \in [SubscribedUsers -> SUBSET Publishers],
          sj \in [SubscribedUsers -> SUBSET Journalists] :
          /\ subscribed_publishers =
                [u \in Users |-> IF u \in SubscribedUsers THEN sp[u] ELSE {}]
          /\ subscribed_journalists =
                [u \in Users |-> IF u \in SubscribedUsers THEN sj[u] ELSE {}]
    /\ response = Resp("none", None, "none", "none", "none")
    /\ pc = [w \in Workers |-> "idle"]
    /\ loc = [w \in Workers |-> NoLocals]
    /\ listing = <<>>
    /\ newsletters = <<>>
    /\ accounts = StoredAccounts
    /\ outbox = {}
    /\ tweet_text = NoTweet
    /\ newsletter_data = NoNewsletterData

SpecToggle == InitToggle /\ [][NextSubs]_vars

(* ---------------------------------------------------------------------- *)
(* SpecCreate: the create operations of articles and newsletters           *)
(* ---------------------------------------------------------------------- *)
\* POST /api/newsletters/: the payload names the author and the articles.
NewsletterData ==
    [author : {Absent, "j1", "j2", "e1"}, articles : SUBSET ArticleIds]

\* Faulty variant: the author field is not compared with the requesting user.
validate_author_any(u, value) == TRUE

\* NewsletterCreateSerializer.validate_author: a journalist may only name
\* themselves; TRUE = no ValidationError.
validate_author(u, value) == ~(role[u] = JOURNALIST /\ value # u)

\* POST /api/newsletters/ by a journalist with the payload d: the field
\* validation, then perform_create.
ApiCreateNewsletterData(u, d) ==
    IF \/ d.author = Absent
       \/ role[d.author] # JOURNALIST
       \/ ~validate_author(u, d.author)
       \/ ~(d.articles \subseteq DOMAIN articles)
    THEN /\ response' = Resp("create_newsletter", u, "invalid",
                             "none", "none")
         /\ UNCHANGED newsletters
    ELSE /\ Len(newsletters) < MaxNewsletters
         /\ newsletters' = Append(newsletters,
                                  [author |-> d.author,
                                   articles |-> d.articles])
         /\ response' = Resp("create_newsletter", u, "ok",
                             "none", "none")

\* POST /api/newsletters/ (NewsletterViewSet, NewsletterCreateSerializer):
\* author is a required field, limited to journalists, and validate_author
\* wants it to be the requesting journalist; articles may be any stored
\* articles.
ApiCreateNewsletter(u) ==
    /\ UNCHANGED <<articles, nextId, subscribed_publishers,
                   subscribed_journalists, pc, loc, listing, notifyVars,
                   newsletter_data>>
    /\ IF ~IsJournalist(u)
       THEN /\ response' = Resp("create_newsletter", u, "forbidden",
                                "none", "none")
            /\ UNCHANGED newsletters
       ELSE \E d \in NewsletterData : ApiCreateNewsletterData(u, d)

\* create_newsletter (NewsletterCreateForm): the form offers the requesting
\* journalist's own approved articles; the view sets the author.
WebCreateNewsletter(u) ==
    /\ UNCHANGED <<articles, nextId, subscribed_publishers,
                   subscribed_journalists, pc, loc, listing, notifyVars,
                   newsletter_data>>
    /\ IF ~is_journalist(u)
       THEN /\ response' = Resp("create_newsletter", u, "access_denied",
                                "none", "none")
            /\ UNCHANGED newsletters
       ELSE \E chosen \in SUBSET ArticleIds :
            IF ~(chosen \subseteq {a \in DOMAIN articles :
                                      /\ articles[a].author = u
                                      /\ articles[a].approved})
            THEN /\ response' = Resp("create_newsletter", u, "invalid",
                                     "none", "none")
                 /\ UNCHANGED newsletters
            ELSE /\ Len(newsletters) < MaxNewsletters
                 /\ newsletters' = Append(newsletters,
                                          [author |-> u, articles |-> chosen])
                 /\ response' = Resp("create_newsletter", u, "ok",
                                     "none", "none")

NextCreate ==
    \/ \E u \in Users : ApiCreate(u)
    \/ \E u \in Users : WebCreate(u)
    \/ \E u \in Users, a \in ArticleIds : WebApprove(u, a)
    \/ \E u \in Users : ApiCreateNewsletter(u)
    \/ \E u \in Users : WebCreateNewsletter(u)

SpecCreate == Init /\ [][NextCreate]_vars

(* ---------------------------------------------------------------------- *)
(* SpecRead: the read requests                                             *)
(* ---------------------------------------------------------------------- *)
\* Primary keys of the two articles SpecRead starts with; the article with
\* the larger key was created later.
FeedIds == {1, 2}

\* The rows SpecRead starts with: by a journalist or for the publisher,
\* pending or approved by editor e1.
ReadRows ==
    {NewArticle("t1", "c1", j, None) : j \in Journalists}
    \cup {NewArticle("t1", "c1", None, q) : q \in Publishers}
    \cup {approved_instance(NewArticle("t1", "c1", j, None), "e1", 1) :
             j \in Journalists}
    \cup {approved_instance(NewArticle("t1", "c1", None, q), "e1", 1) :
             q \in Publishers}

InitRead ==
    /\ articles \in [FeedIds -> ReadRows]
    /\ nextId = 3
    /\ \E c \in SubscriptionConfigs :
          /\ subscribed_publishers =
                [u \in Users |-> IF u = "r1" THEN c.publishers ELSE {}]
          /\ subscribed_journalists =
                [u \in Users |-> IF u = "r1" THEN c.journalists ELSE {}]
    /\ response = Resp("none", None, "none", "none", "none")
    /\ pc = [w \in Workers |-> "idle"]
    /\ loc = [w \in Workers |-> NoLocals]
    /\ listing = <<>>
    /\ newsletters = <<>>
    /\ accounts = StoredAccounts
    /\ outbox = {}
    /\ tweet_text = NoTweet
    /\ newsletter_data = NoNewsletterData

\* Faulty variant: oldest first.
RECURSIVE order_by_oldest(_)
order_by_oldest(S) ==
    IF S = {} THEN <<>>
    ELSE LET m == CHOOSE x \in S : \A y \in S : x <= y
         IN  <<m>> \o order_by_oldest(S \ {m})

\* order_by('-created_at'): newest first; the rows were created in the
\* order of their primary keys.
RECURSIVE order_by_created(_)
order_by_created(S) ==
    IF S = {} THEN <<>>
    ELSE LET m == CHOOSE x \in S : \A y \in S : y <= x
         IN  <<m>> \o order_by_created(S \ {m})

\* GET /api/articles/<id>/: authentication, get_object on the user's
\* queryset, then CanViewArticle.
ApiRetrieve(u, a) ==
    /\ UNCHANGED <<articles, nextId, subscribed_publishers,
                   subscribed_journalists, pc, loc, listing, newsletters, notifyVars, newsletter_data>>
    /\ IF ~is_authenticated(u)
       THEN response' = Resp("retrieve", u, "unauthenticated", "none", "none")
       ELSE IF a \notin get_queryset(u, articles)
       THEN response' = Resp("retrieve", u, "not_found", "none", "none")
       ELSE IF ~CanViewArticle(u, articles[a])
       THEN response' = Resp("retrieve", u, "forbidden", "none", "none")
       ELSE response' = Resp("retrieve", u, "ok", "none", "none")

\* Faulty variant: only the readers' check is made.
article_detail_permitted_readers_check(u, obj) ==
    ~(role[u] = READER /\ ~obj.approved)

\* The two checks of article_detail that raise PermissionDenied: a reader and
\* a pending article; a journalist and a pending article of another author.
article_detail_permitted(u, obj) ==
    /\ ~(role[u] = READER /\ ~obj.approved)
    /\ ~(role[u] = JOURNALIST /\ ~obj.approved /\ obj.author # u)

\* article_detail: login_required, get_object_or_404, then the two checks
\* that raise PermissionDenied.
WebDetail(u, a) ==
    /\ UNCHANGED <<articles, nextId, subscribed_publishers,
                   subscribed_journalists, pc, loc, listing, newsletters, notifyVars, newsletter_data>>
    /\ IF ~is_authenticated(u)
       THEN response' = Resp("detail", u, "unauthenticated", "none", "none")
       ELSE IF a \notin DOMAIN articles
       THEN response' = Resp("detail", u, "not_found", "none", "none")
       ELSE IF ~article_detail_permitted(u, articles[a])
       THEN response' = Resp("detail", u, "forbidden", "none", "none")
       ELSE response' = Resp("detail", u, "ok", "none", "none")

\* GET /api/articles/: the user's queryset, newest first.
ApiList(u) ==
    /\ UNCHANGED <<articles, nextId, subscribed_publishers,
                   subscribed_journalists, pc, loc, newsletters, notifyVars, newsletter_data>>
    /\ listing' = order_by_created(get_queryset(u, articles))
    /\ response' = Resp("list", u, "ok", "none", "none")

\* GET /api/articles/subscribed/: readers only (400 for the others); the
\* approved articles of the subscribed publishers and journalists, newest
\* first.
ApiSubscribed(u) ==
    /\ UNCHANGED <<articles, nextId, subscribed_publishers,
                   subscribed_journalists, pc, loc, newsletters, notifyVars, newsletter_data>>
    /\ IF role[u] # READER
       THEN /\ response' = Resp("feed", u, "invalid", "none", "none")
            /\ listing' = <<>>
       ELSE /\ listing' = order_by_created(
                   {a \in DOMAIN articles :
                       /\ articles[a].approved
                       /\ \/ articles[a].publisher \in subscribed_publishers[u]
                          \/ articles[a].author \in subscribed_journalists[u]})
            /\ response' = Resp("feed", u, "ok", "none", "none")

NextRead ==
    \/ \E u \in Actors, a \in FeedIds : ApiRetrieve(u, a)
    \/ \E u \in Actors, a \in FeedIds : WebDetail(u, a)
    \/ \E u \in Users : ApiList(u)
    \/ \E u \in Users : ApiSubscribed(u)
    \/ \E u \in Users, a \in FeedIds : ApiDestroy(u, a)
    \/ \E u \in Users, q \in Publishers : TogglePublisher(u, q)
    \/ \E u \in Users, j \in Users : ToggleJournalist(u, j)

SpecRead == InitRead /\ [][NextRead]_vars

(* ---------------------------------------------------------------------- *)
(* SpecConc: two approve requests step by step                             *)
(* ---------------------------------------------------------------------- *)
(* SpecNotify: one approval and its notifications, over the stored users,  *)
(* their subscriptions and the settings                                    *)
(* ---------------------------------------------------------------------- *)
\* The four credentials post_to_twitter looks for in the settings.
TwitterKeys ==
    {"TWITTER_API_KEY", "TWITTER_API_SECRET", "TWITTER_ACCESS_TOKEN",
     "TWITTER_ACCESS_TOKEN_SECRET"}

\* A settings module: each credential is missing, has the placeholder value
\* of the settings template, or has a value of its own.
SettingsValues == [TwitterKeys -> {"absent", "placeholder", "real"}]

\* Faulty variant: a placeholder counts as a credential.
twitter_credentials_any(settings) ==
    IF \E k \in TwitterKeys : settings[k] = "absent" THEN "absent"
    ELSE "real"

\* The two checks of post_to_twitter before it composes the post: all four
\* attributes exist, and none equals its placeholder.
twitter_credentials(settings) ==
    IF \E k \in TwitterKeys : settings[k] = "absent" THEN "absent"
    ELSE IF \E k \in TwitterKeys : settings[k] = "placeholder"
    THEN "placeholder"
    ELSE "real"

\* The users whose rows and subscriptions vary in SpecNotify: a reader and
\* an editor (a subscription row of a user who is no reader can be stored).
NotifySubscribers == {"r1", "e1"}

\* One pending article of a journalist or of a publisher; any subscriptions
\* of the users of NotifySubscribers; the reader's row is active or not, with
\* or without an email address.
InitNotify ==
    /\ \E src \in {"j1", "j2", "p1"} :
          articles = [i \in ArticleIds |->
                         IF src \in Journalists
                         THEN NewArticle("t1", "c1", src, None)
                         ELSE NewArticle("t1", "c1", None, src)]
    /\ nextId = 2
    /\ \E sp, sj \in [NotifySubscribers -> BOOLEAN] :
          /\ subscribed_publishers =
                [u \in Users |-> IF u \in NotifySubscribers /\ sp[u]
                                 THEN {"p1"} ELSE {}]
          /\ subscribed_journalists =
                [u \in Users |-> IF u \in NotifySubscribers /\ sj[u]
                                 THEN {"j1"} ELSE {}]
    /\ \E act, em \in BOOLEAN :
          accounts = [u \in Users |->
                         IF u \in Readers
                         THEN [is_active |-> act, has_email |-> em]
                         ELSE StoredAccounts[u]]
    /\ response = Resp("none", None, "none", "none", "none")
    /\ pc = [w \in Workers |-> "idle"]
    /\ loc = [w \in Workers |-> NoLocals]
    /\ listing = <<>>
    /\ newsletters = <<>>
    /\ outbox = {}
    /\ tweet_text = NoTweet
    /\ newsletter_data = NoNewsletterData

\* POST /api/articles/<id>/approve/ with the settings the process runs under,
\* what send_mail does and what the HTTP call of the social post does; the
\* recipient_list of the send_mail call is kept.
ApproveNotify(u, a, settings, mail, api) ==
    /\ UNCHANGED <<nextId, subscribed_publishers, subscribed_journalists, pc,
                   loc, listing, newsletters, accounts, tweet_text,
                   newsletter_data>>
    /\ IF ~CanApproveArticle(u)
       THEN /\ response' = Resp("approve", u, "forbidden", "none", "none")
            /\ UNCHANGED <<articles, outbox>>
       ELSE IF a \notin get_queryset(u, articles)
       THEN /\ response' = Resp("approve", u, "not_found", "none", "none")
            /\ UNCHANGED <<articles, outbox>>
       ELSE IF already_approved(articles[a])
       THEN /\ response' = Resp("approve", u, "already_approved",
                                "none", "none")
            /\ UNCHANGED <<articles, outbox>>
       ELSE LET env == [db |-> TRUE, now |-> 1, mail |-> mail,
                        creds |-> twitter_credentials(settings), api |-> api]
                inst == approved_instance(articles[a], u, env.now)
                r == save(articles, a, a, inst, env)
            IN  /\ articles' = r.articles
                /\ response' = Resp("approve", u,
                                    IF r.ok THEN "ok" ELSE "error",
                                    r.email, r.tweet)
                /\ outbox' = IF r.email \in {"sent", "raised"}
                             THEN recipient_emails(
                                      get_article_subscribers(inst))
                             ELSE {}

\* A request that is turned away reads no settings and reaches no channel.
NextNotify ==
    \E u \in Users, a \in ArticleIds :
        IF /\ CanApproveArticle(u)
           /\ a \in get_queryset(u, articles)
           /\ ~already_approved(articles[a])
        THEN \E settings \in SettingsValues, mail \in {"ok", "fail"},
                api \in {"created", "failed"} :
                 ApproveNotify(u, a, settings, mail, api)
        ELSE ApproveNotify(u, a, [k \in TwitterKeys |-> "absent"], "ok",
                           "created")

SpecNotify == InitNotify /\ [][NextNotify]_vars

(* ---------------------------------------------------------------------- *)
(* SpecTweet: the text post_to_twitter composes; a text is modelled by its *)
(* length                                                                  *)
(* ---------------------------------------------------------------------- *)
\* Article.title is a CharField(max_length=300).
MaxTitle == 300

\* The limit post_to_twitter composes to.
max_length == 250

\* Lengths of the source name (the author's full name or username, or the
\* publisher's name) and of the content.
SourceNameLens == {1, 8, 40, 150}

ContentLens == {0, 10, 100, 240, 1000}

Min(x, y) == IF x < y THEN x ELSE y

\* Length of f"{title}\n\nBy {source_name}\n\n", followed, when more than 50
\* characters remain, by content[:remaining_chars - 3] + "...".
compose_tweet(title, source_name, content) ==
    LET head == title + 5 + source_name + 2
        remaining_chars == max_length - head
    IN  IF remaining_chars > 50
        THEN head + Min(content, remaining_chars - 3) + 3
        ELSE head

\* post_to_twitter composes the post of one article.
ComposeTweet(title, source_name, content) ==
    /\ tweet_text = NoTweet
    /\ newsletter_data = NoNewsletterData
    /\ tweet_text' = [title |-> title, source_name |-> source_name,
                      content |-> content,
                      text |-> compose_tweet(title, source_name, content)]
    /\ UNCHANGED <<articles, nextId, subscribed_publishers,
                   subscribed_journalists, response, pc, loc, listing,
                   newsletters, accounts, outbox, newsletter_data>>

NextTweet ==
    \E title \in 1..MaxTitle, source_name \in SourceNameLens,
       content \in ContentLens :
        ComposeTweet(title, source_name, content)

SpecTweet == Init /\ [][NextTweet]_vars

(* ---------------------------------------------------------------------- *)
(* SpecLetters: the views of one stored newsletter                         *)
(* ---------------------------------------------------------------------- *)
\* Two stored articles, pending or approved, and one newsletter of a
\* journalist that holds any of them (the create serializer takes any stored
\* article).
InitLetters ==
    /\ articles \in [FeedIds -> ReadRows]
    /\ nextId = 3
    /\ subscribed_publishers = [u \in Users |-> {}]
    /\ subscribed_journalists = [u \in Users |-> {}]
    /\ response = Resp("none", None, "none", "none", "none")
    /\ pc = [w \in Workers |-> "idle"]
    /\ loc = [w \in Workers |-> NoLocals]
    /\ listing = <<>>
    /\ \E chosen \in SUBSET FeedIds :
          newsletters = <<[author |-> "j1", articles |-> chosen]>>
    /\ accounts = StoredAccounts
    /\ outbox = {}
    /\ tweet_text = NoTweet
    /\ newsletter_data = NoNewsletterData

\* Newsletter.get_approved_articles
get_approved_articles(nl) == {a \in nl.articles : articles[a].approved}

\* The articles newsletter_detail and get_articles_summary hand out: the
\* approved ones for a reader, all of them for the other roles.
articles_for(u, nl) ==
    IF is_reader(u) THEN get_approved_articles(nl) ELSE nl.articles

\* newsletter_detail: login_required; the context holds the articles.
WebNewsletterDetail(u, n) ==
    /\ UNCHANGED <<articles, nextId, subscribed_publishers,
                   subscribed_journalists, pc, loc, listing, newsletters,
                   notifyVars>>
    /\ IF ~is_authenticated(u)
       THEN /\ response' = Resp("newsletter_detail", u, "unauthenticated",
                                "none", "none")
            /\ newsletter_data' = NoNewsletterData
       ELSE IF n \notin DOMAIN newsletters
       THEN /\ response' = Resp("newsletter_detail", u, "not_found",
                                "none", "none")
            /\ newsletter_data' = NoNewsletterData
       ELSE /\ response' = Resp("newsletter_detail", u, "ok", "none", "none")
            /\ newsletter_data' =
                  [id |-> n, articles |-> articles_for(u, newsletters[n])]

\* GET /api/newsletters/<id>/ (NewsletterSerializer): articles is the
\* primary keys of the relation, article_count their number, and
\* articles_summary the method field.
ApiRetrieveNewsletter(u, n) ==
    /\ UNCHANGED <<articles, nextId, subscribed_publishers,
                   subscribed_journalists, pc, loc, listing, newsletters,
                   notifyVars>>
    /\ IF ~is_authenticated(u)
       THEN /\ response' = Resp("retrieve_newsletter", u, "unauthenticated",
                                "none", "none")
            /\ newsletter_data' = NoNewsletterData
       ELSE IF n \notin DOMAIN newsletters
       THEN /\ response' = Resp("retrieve_newsletter", u, "not_found",
                                "none", "none")
            /\ newsletter_data' = NoNewsletterData
       ELSE /\ response' = Resp("retrieve_newsletter", u, "ok",
                                "none", "none")
            /\ newsletter_data' =
                  [id |-> n,
                   articles |-> newsletters[n].articles,
                   articles_summary |-> articles_for(u, newsletters[n]),
                   article_count |-> Cardinality(newsletters[n].articles)]

NextLetters ==
    \E u \in Actors, n \in 1..2 :
        \/ WebNewsletterDetail(u, n)
        \/ ApiRetrieveNewsletter(u, n)

SpecLetters == InitLetters /\ [][NextLetters]_vars

(* ---------------------------------------------------------------------- *)
(* SpecValidate: model validation of the stored users (CustomUser.clean)   *)
(* ---------------------------------------------------------------------- *)
\* The users whose subscription rows vary in SpecValidate; the relations are
\* plain many-to-many tables, so a row of any user can be stored.
ValidatedUsers == {"e1", "j1", "r1"}

InitValidate ==
    /\ articles = EmptyStore
    /\ nextId = 1
    /\ subscribed_publishers \in
          [Users -> SUBSET Publishers]
    /\ \E sj \in [ValidatedUsers -> SUBSET {"j2"}] :
          subscribed_journalists =
              [u \in Users |-> IF u \in ValidatedUsers THEN sj[u] ELSE {}]
    /\ \A u \in Users \ ValidatedUsers : subscribed_publishers[u] = {}
    /\ response = Resp("none", None, "none", "none", "none")
    /\ pc = [w \in Workers |-> "idle"]
    /\ loc = [w \in Workers |-> NoLocals]
    /\ listing = <<>>
    /\ newsletters = <<>>
    /\ accounts = StoredAccounts
    /\ outbox = {}
    /\ tweet_text = NoTweet
    /\ newsletter_data = NoNewsletterData

\* CustomUser.clean of a stored user (pk set): raises for a journalist with a
\* subscription; TRUE = no ValidationError.
user_clean(u) ==
    ~(/\ role[u] = JOURNALIST
      /\ \/ subscribed_publishers[u] # {}
         \/ subscribed_journalists[u] # {})

\* full_clean() of a stored user.
ValidateUser(u) ==
    /\ response' = Resp("validate", u,
                        IF user_clean(u) THEN "ok" ELSE "invalid",
                        "none", "none")
    /\ UNCHANGED <<articles, nextId, subscribed_publishers,
                   subscribed_journalists, pc, loc, listing, newsletters,
                   notifyVars, newsletter_data>>

NextValidate == \E u \in Users : ValidateUser(u)

SpecValidate == InitValidate /\ [][NextValidate]_vars

(* ---------------------------------------------------------------------- *)
\* A pending article is in the store; each worker serves one request to
\* POST /api/articles/<id>/approve/ (approve_article of views.py takes the
\* same steps). Neither handler locks the row or opens a transaction, so the
\* steps of the two requests interleave.
InitConc ==
    /\ \E t \in Titles, src \in {"j1", "p1"} :
          articles = [i \in ArticleIds |->
                         IF src \in Journalists
                         THEN NewArticle(t, "c1", src, None)
                         ELSE NewArticle(t, "c1", None, src)]
    /\ nextId = 2
    /\ \E c \in SubscriptionConfigs :
          /\ subscribed_publishers =
                [u \in Users |-> IF u = "r1" THEN c.publishers ELSE {}]
          /\ subscribed_journalists =
                [u \in Users |-> IF u = "r1" THEN c.journalists ELSE {}]
    /\ response = Resp("none", None, "none", "none", "none")
    /\ pc = [w \in Workers |-> "idle"]
    /\ loc = [w \in Workers |-> NoLocals]
    /\ listing = <<>>
    /\ newsletters = <<>>
    /\ accounts = StoredAccounts
    /\ outbox = {}
    /\ tweet_text = NoTweet
    /\ newsletter_data = NoNewsletterData

\* The request of worker w ends with the given response.
Finish(w, l, outcome) ==
    /\ loc' = [loc EXCEPT ![w] = [l EXCEPT !.outcome = outcome]]
    /\ pc' = [pc EXCEPT ![w] = "done"]

\* approve, up to article.save(): the permission check, get_object (the read
\* of the row), the check of its approved flag, the three assignments.
ApproveRead(w, u, a) ==
    /\ pc[w] = "idle"
    /\ UNCHANGED <<articles, nextId, subscribed_publishers,
                   subscribed_journalists, response,
                   listing, newsletters, notifyVars, newsletter_data>>
    /\ LET l == [loc[w] EXCEPT !.op = "approve", !.actor = u, !.pk = a]
       IN  IF ~CanApproveArticle(u)
           THEN Finish(w, l, "forbidden")
           ELSE IF a \notin get_queryset(u, articles)
           THEN Finish(w, l, "not_found")
           ELSE IF already_approved(articles[a])
           THEN Finish(w, l, "already_approved")
           ELSE \E t \in Times :
                   /\ loc' = [loc EXCEPT ![w] =
                                 [l EXCEPT !.inst =
                                     approved_instance(articles[a], u, t)]]
                   /\ pc' = [pc EXCEPT ![w] = "pre_save"]

\* Article.save, first half: full_clean, then the pre_save handler re-fetches
\* the stored row and compares.
PreSave(w) ==
    /\ pc[w] = "pre_save"
    /\ UNCHANGED <<articles, nextId, subscribed_publishers,
                   subscribed_journalists, response,
                   listing, newsletters, notifyVars, newsletter_data>>
    /\ IF ~full_clean(loc[w].inst)
       THEN Finish(w, loc[w], "error")
       ELSE /\ loc' = [loc EXCEPT ![w].just =
                          track_approval_changes(articles, loc[w].pk, loc[w].inst)]
            /\ pc' = [pc EXCEPT ![w] = "write"]

\* Article.save, second half: super().save() writes the row, or raises.
Write(w) ==
    /\ pc[w] = "write"
    /\ UNCHANGED <<nextId, subscribed_publishers, subscribed_journalists,
                   response,
                   listing, newsletters, notifyVars, newsletter_data>>
    /\ \E db \in BOOLEAN :
          IF db
          THEN /\ articles' = write_row(articles, loc[w].pk, loc[w].inst)
               /\ loc' = [loc EXCEPT
                             ![w].written = TRUE,
                             ![w].seq = Cardinality({v \in Workers :
                                                        loc[v].written}) + 1]
               /\ pc' = [pc EXCEPT ![w] = "post_save"]
          ELSE /\ UNCHANGED articles
               /\ Finish(w, loc[w], "error")

\* The post_save handler, then the response of the approve handler.
PostSave(w) ==
    /\ pc[w] = "post_save"
    /\ UNCHANGED <<nextId, subscribed_publishers, subscribed_journalists,
                   response,
                   listing, newsletters, notifyVars, newsletter_data>>
    /\ \E env \in {e \in Envs(loc[w].just) : e.db} :
          LET h == handle_article_approval(articles, loc[w].pk, loc[w].inst,
                                           loc[w].just, env)
          IN  /\ articles' = h.articles
              /\ Finish(w, [loc[w] EXCEPT !.email = h.email, !.tweet = h.tweet],
                        "ok")

NextConc ==
    \/ \E w \in Workers, u \in Users, a \in ArticleIds : ApproveRead(w, u, a)
    \/ \E w \in Workers : PreSave(w)
    \/ \E w \in Workers : Write(w)
    \/ \E w \in Workers : PostSave(w)

SpecConc == InitConc /\ [][NextConc]_vars

(* ---------------------------------------------------------------------- *)
(* SpecRace: an approve request next to an edit or a reject of the same    *)
(* article; Article.save is the steps PreSave, Write, PostSave of SpecConc *)
(* ---------------------------------------------------------------------- *)
\* PUT/PATCH payloads that touch the text only.
EditData ==
    {[NoChange EXCEPT !.title = "t2"], [NoChange EXCEPT !.content = "c2"]}

\* PUT/PATCH /api/articles/<id>/, up to instance.save(): get_object (the read
\* of the row), the object permission, and the serializer's assignments to
\* the instance it read.
EditRead(w, u, a, d) ==
    /\ pc[w] = "idle"
    /\ UNCHANGED <<articles, nextId, subscribed_publishers,
                   subscribed_journalists, response,
                   listing, newsletters, notifyVars, newsletter_data>>
    /\ LET l == [loc[w] EXCEPT !.op = "update", !.actor = u, !.pk = a]
       IN  IF a \notin get_queryset(u, articles)
           THEN Finish(w, l, "not_found")
           ELSE IF ~CanModifyArticle(u, articles[a])
           THEN Finish(w, l, "forbidden")
           ELSE /\ loc' = [loc EXCEPT ![w] =
                              [l EXCEPT !.inst =
                                  [articles[a] EXCEPT
                                      !.title = IF d.title = Absent THEN @
                                                ELSE d.title,
                                      !.content = IF d.content = Absent THEN @
                                                  ELSE d.content]]]
                /\ pc' = [pc EXCEPT ![w] = "pre_save"]

\* reject_article: the editors' test, get_object_or_404 and article.delete().
RejectRequest(w, u, a) ==
    /\ pc[w] = "idle"
    /\ UNCHANGED <<nextId, subscribed_publishers, subscribed_journalists,
                   response, listing, newsletters, notifyVars,
                   newsletter_data>>
    /\ LET l == [loc[w] EXCEPT !.op = "reject", !.actor = u, !.pk = a]
       IN  IF ~is_editor(u)
           THEN /\ Finish(w, l, "access_denied")
                /\ UNCHANGED articles
           ELSE IF a \notin DOMAIN articles
           THEN /\ Finish(w, l, "not_found")
                /\ UNCHANGED articles
           ELSE /\ articles' = [i \in DOMAIN articles \ {a} |-> articles[i]]
                /\ Finish(w, l, "ok")

\* The users who send the requests of SpecRace.
RaceUsers == {"e1", "j1", "j2"}

NextRace ==
    \/ \E w \in Workers, u \in RaceUsers, a \in ArticleIds :
          ApproveRead(w, u, a)
    \/ \E w \in Workers, u \in RaceUsers, a \in ArticleIds, d \in EditData :
          EditRead(w, u, a, d)
    \/ \E w \in Workers, u \in RaceUsers, a \in ArticleIds :
          RejectRequest(w, u, a)
    \/ \E w \in Workers : PreSave(w)
    \/ \E w \in Workers : Write(w)
    \/ \E w \in Workers : PostSave(w)

SpecRace == InitConc /\ [][NextRace]_vars

(* ---------------------------------------------------------------------- *)
(* SpecAuthor: the two create handlers, and reject_article to empty the    *)
(* table again                                                             *)
(* ---------------------------------------------------------------------- *)
NextAuthor ==
    \/ \E u \in Users : ApiCreate(u)
    \/ \E u \in Users : WebCreate(u)
    \/ \E u \in Users, a \in ArticleIds : WebReject(u, a)

SpecAuthor == Init /\ [][NextAuthor]_vars

(* ---------------------------------------------------------------------- *)
(* Properties of Spec                                                      *)
(* ---------------------------------------------------------------------- *)
Exists(a) == a \in DOMAIN articles

\* The step turns the stored approved flag of article a from false (or from
\* no row) to true.
BecomesApproved(a) ==
    /\ a \in DOMAIN articles'
    /\ articles'[a].approved
    /\ (a \in DOMAIN articles => ~articles[a].approved)

\* The step ran a fan-out attempt.
FanOutRan == response'.email # "none" \/ response'.tweet # "none"

\* C1: once an article's approved flag is true, no step sets it back to
\* false while the article exists.
C1_ApprovedNeverRevoked ==
    [][\A a \in ArticleIds :
          (Exists(a) /\ articles[a].approved /\ a \in DOMAIN articles')
              => articles'[a].approved]_vars

\* C2: every step that turns an article's approved flag from false to true
\* is a request of an editor, and records that editor in approved_by and a
\* timestamp in approved_at.
C2_OnlyEditorsApprove ==
    [][\A a \in ArticleIds :
          BecomesApproved(a)
              => /\ response'.actor \in Editors
                 /\ articles'[a].approved_by = response'.actor
                 /\ articles'[a].approved_at # NoTime]_vars

\* C3: an approve request of a journalist or of a reader is denied (403 from
\* the API, the access-denied redirect from the HTML view) and changes no
\* article: a pending article stays pending.
C3_NonEditorApproveDenied ==
    [][(response'.op = "approve" /\ response'.actor \notin Editors)
          => /\ response'.outcome \in {"forbidden", "access_denied"}
             /\ articles' = articles]_vars

C3_Witness ==
    /\ response.op = "approve"
    /\ response.actor \in Journalists
    /\ response.outcome = "forbidden"
    /\ \E a \in DOMAIN articles : ~articles[a].approved

\* C4: when an editor approves a pending article and the approval goes
\* through, the stored article is approved, approved_by is that editor,
\* approved_at is set, and title, content, author and publisher are as before.
C4_ApproveEffect ==
    [][\A a \in ArticleIds :
          (/\ Exists(a)
           /\ ~articles[a].approved
           /\ response'.op = "approve"
           /\ response'.outcome = "ok")
              => /\ a \in DOMAIN articles'
                 /\ articles'[a].approved
                 /\ response'.actor \in Editors
                 /\ articles'[a].approved_by = response'.actor
                 /\ articles'[a].approved_at # NoTime
                 /\ articles'[a].title = articles[a].title
                 /\ articles'[a].content = articles[a].content
                 /\ articles'[a].author = articles[a].author
                 /\ articles'[a].publisher = articles[a].publisher]_vars

C4_Witness ==
    /\ response.op = "approve"
    /\ response.outcome = "ok"
    /\ \E a \in DOMAIN articles :
          /\ articles[a].approved
          /\ articles[a].approved_by = response.actor
          /\ articles[a].approved_at # NoTime
          /\ articles[a].title = "t2"

\* C5: an approve request of an editor (the approving one or another) for an
\* article that is already approved returns the already-approved outcome and
\* leaves the article, approved_by and approved_at included, as it was.
C5_ReapproveRejected ==
    [][\A a \in ArticleIds :
          (/\ Exists(a)
           /\ articles[a].approved
           /\ response'.op = "approve"
           /\ response'.actor \in Editors)
              => /\ response'.outcome = "already_approved"
                 /\ articles' = articles]_vars

C5_Witness ==
    /\ response.op = "approve"
    /\ response.outcome = "already_approved"
    /\ \E a \in DOMAIN articles :
          /\ articles[a].approved
          /\ articles[a].approved_by \in Editors
          /\ articles[a].approved_by # response.actor

\* C6: of two approve requests in sequence, the first (on the pending
\* article) approves it and runs the fan-out once; the second (on the now
\* approved article) gets the already-approved outcome and runs no fan-out.
C6_SecondApproveSilent ==
    [][\A a \in ArticleIds :
          /\ (/\ Exists(a)
              /\ ~articles[a].approved
              /\ response'.op = "approve"
              /\ response'.outcome = "ok")
                 => /\ articles'[a].approved
                    /\ response'.email # "none"
          /\ (/\ Exists(a)
              /\ articles[a].approved
              /\ response'.op = "approve"
              /\ response'.actor \in Editors)
                 => /\ response'.outcome = "already_approved"
                    /\ ~FanOutRan]_vars

C6_Witness ==
    /\ response.op = "approve"
    /\ response.actor \in Editors
    /\ response.outcome = "already_approved"
    /\ response.email = "none"
    /\ response.tweet = "none"

\* C9: a step runs the fan-out only if it turns the stored approved flag of
\* an existing article from false to true; a create, a reject or delete, and
\* an edit that leaves the approved flag as it was run none.
C9_FanOutOnlyOnApproval ==
    [][/\ FanOutRan => \E a \in ArticleIds : Exists(a) /\ BecomesApproved(a)
       /\ response'.op \in {"create", "delete", "reject"} => ~FanOutRan
       /\ (/\ response'.op = "update"
           /\ \A a \in DOMAIN articles :
                 a \in DOMAIN articles' /\ articles'[a].approved = articles[a].approved)
              => ~FanOutRan]_vars

C9_Witness ==
    /\ response.op = "update"
    /\ response.outcome = "ok"
    /\ response.email = "none"
    /\ response.tweet = "none"
    /\ \E a \in DOMAIN articles : articles[a].approved /\ articles[a].title = "t2"

\* C10: when the social post raises during the fan-out of an approval, the
\* email channel has done what it does on its own (sent to the subscribers,
\* or skipped when there are none) and the article is approved in the store.
C10_SocialFailureIsolated ==
    [][response'.tweet = "raised"
          => \E a \in ArticleIds :
                /\ BecomesApproved(a)
                /\ response'.outcome = "ok"
                /\ response'.email = send_email_to_subscribers(articles'[a], "ok")]_vars

C10_Witness ==
    /\ response.tweet = "raised"
    /\ response.email = "sent"
    /\ \E a \in DOMAIN articles : articles[a].approved

(* ---------------------------------------------------------------------- *)
(* Properties of SpecConc                                                  *)
(* ---------------------------------------------------------------------- *)
Notified(w) == loc[w].email # "none" \/ loc[w].tweet # "none"

\* C7: when the two concurrent approve requests are over, at most one of
\* them has succeeded, the fan-out has run at most once, and approved_by and
\* approved_at of the stored article are those of the first writer.
C7_FirstWriterWins ==
    (\A w \in Workers : pc[w] = "done")
        => /\ Cardinality({w \in Workers : loc[w].outcome = "ok"}) <= 1
           /\ Cardinality({w \in Workers : Notified(w)}) <= 1
           /\ \A w \in Workers :
                 loc[w].seq = 1
                    => /\ articles[loc[w].pk].approved_by = loc[w].actor
                       /\ articles[loc[w].pk].approved_at =
                             loc[w].inst.approved_at

\* C8: a request whose fan-out has run has written its approval, and the
\* store holds the article as approved; a request whose write raised has
\* reached no channel.
C8_NotifyAfterWrite ==
    \A w \in Workers :
        /\ Notified(w)
              => /\ loc[w].written
                 /\ loc[w].pk \in DOMAIN articles
                 /\ articles[loc[w].pk].approved
        /\ ~loc[w].written => ~Notified(w)

C8_Witness ==
    \E w \in Workers, v \in Workers :
        /\ loc[w].email = "sent"
        /\ loc[w].tweet = "posted"
        /\ loc[w].written
        /\ loc[v].outcome = "error"
        /\ ~loc[v].written
        /\ ~Notified(v)

(* ---------------------------------------------------------------------- *)
(* Properties of Spec: notification channels, validation                   *)
(* ---------------------------------------------------------------------- *)
\* C11: whenever the fan-out runs, both channels are attempted: an email
\* channel that raises does not keep the social post from being tried, and a
\* social post that raises does not keep the email from being tried.
C11_ChannelsIndependent ==
    [][FanOutRan => /\ response'.email # "none"
                    /\ response'.tweet # "none"]_vars

\* C12: an approve request whose fan-out ran, whatever the two channels did
\* (sent, posted, skipped or raised), reports success, and the article is
\* stored approved with the requesting editor in approved_by and a timestamp
\* in approved_at.
C12_NotificationFailureContained ==
    [][(response'.op = "approve" /\ FanOutRan)
          => /\ response'.outcome = "ok"
             /\ \E a \in ArticleIds :
                   /\ BecomesApproved(a)
                   /\ articles'[a].approved_by = response'.actor
                   /\ articles'[a].approved_at # NoTime]_vars

C12_Witness ==
    /\ response.op = "approve"
    /\ response.outcome = "ok"
    /\ response.email = "raised"
    /\ \E a \in DOMAIN articles :
          /\ articles[a].approved
          /\ articles[a].approved_by = response.actor

\* C13: every stored article has exactly one of author and publisher; a
\* create or an edit that is answered with a validation error (400) or ends
\* in the exception of save() leaves the store as it was.
C13_ExactlyOneSource ==
    [][/\ \A a \in DOMAIN articles' :
             (articles'[a].author = None) # (articles'[a].publisher = None)
       /\ response'.outcome \in {"invalid", "error"} => articles' = articles]_vars

C13_Witness ==
    /\ response.op = "update"
    /\ response.outcome = "invalid"
    /\ \E a \in DOMAIN articles :
          (articles[a].author = None) # (articles[a].publisher = None)

(* ---------------------------------------------------------------------- *)
(* Properties of Spec: edit / delete policy, creation, deletion            *)
(* ---------------------------------------------------------------------- *)
\* C15: an edit or delete request (PUT/PATCH/DELETE of the API) for a stored
\* article is denied (403, or 404 when the article is outside the user's
\* queryset) exactly when the user is neither an editor nor the journalist
\* who is the article's author; a denied request changes nothing.
C15_ModifyPolicy ==
    [][\A a \in DOMAIN articles :
          response'.op \in {"update", "delete"}
              => /\ (response'.outcome \in {"forbidden", "not_found"})
                       <=> ~(\/ response'.actor \in Editors
                             \/ /\ response'.actor \in Journalists
                                /\ articles[a].author = response'.actor)
                 /\ response'.outcome \in {"forbidden", "not_found"}
                       => articles' = articles]_vars

C15_Witness ==
    /\ response.op = "delete"
    /\ response.outcome = "forbidden"
    /\ response.actor \in Journalists
    /\ \E a \in DOMAIN articles :
          articles[a].author \in Journalists \ {response.actor}

\* C17: an article added by a create request is stored with approved false
\* and with approved_by and approved_at null.
C17_CreatedPending ==
    [][(response'.op = "create" /\ response'.outcome = "ok")
          => /\ DOMAIN articles' # DOMAIN articles
             /\ \A a \in DOMAIN articles' \ DOMAIN articles :
                   /\ ~articles'[a].approved
                   /\ articles'[a].approved_by = None
                   /\ articles'[a].approved_at = NoTime]_vars

C17_Witness ==
    /\ response.op = "create"
    /\ response.outcome = "ok"
    /\ \E a \in DOMAIN articles :
          /\ ~articles[a].approved
          /\ articles[a].approved_by = None
          /\ articles[a].approved_at = NoTime
          /\ articles[a].content = "c2"

\* C18: no step removes an article whose approved flag is true: an article
\* leaves the store only while it is pending.
C18_DeletedOnlyFromPending ==
    [][\A a \in DOMAIN articles :
          a \notin DOMAIN articles' => ~articles[a].approved]_vars

(* ---------------------------------------------------------------------- *)
(* Properties of SpecCreate                                                *)
(* ---------------------------------------------------------------------- *)
\* C16: a request to create an article or a newsletter is denied (403 from
\* the API, the access-denied redirect from the HTML view) exactly when the
\* requesting user is no journalist, and a denied request adds no article
\* and no newsletter.
C16_CreatePolicy ==
    [][response'.op \in {"create", "create_newsletter"}
          => /\ (response'.outcome \in {"forbidden", "access_denied"})
                   <=> response'.actor \notin Journalists
             /\ response'.actor \notin Journalists
                   => /\ articles' = articles
                      /\ newsletters' = newsletters]_vars

C16_Witness ==
    /\ response.op = "create_newsletter"
    /\ response.outcome = "forbidden"
    /\ response.actor \in Editors
    /\ Len(newsletters) = 1
    /\ newsletters[1].author \in Journalists
    /\ DOMAIN articles # {}

\* C38: a journalist creates articles and newsletters for themselves only: a
\* create request of journalist J that names another author is answered with
\* a validation error and stores nothing, and every article or newsletter
\* that a request of J created and that has an author has J as its author.
C38_JournalistCreatesForSelf ==
    [][(/\ response'.op \in {"create", "create_newsletter"}
        /\ response'.actor \in Journalists)
          => LET J == response'.actor
             IN  /\ (\E d \in CreateData :
                        /\ d.author \notin {Absent, None, J}
                        /\ ApiCreateData(J, d))
                       => /\ response'.outcome = "invalid"
                          /\ UNCHANGED <<articles, nextId, newsletters>>
                 /\ (\E d \in NewsletterData :
                        /\ d.author \notin {Absent, J}
                        /\ ApiCreateNewsletterData(J, d))
                       => /\ response'.outcome = "invalid"
                          /\ UNCHANGED <<articles, nextId, newsletters>>
                 /\ (response'.op = "create" /\ response'.outcome = "ok")
                       => /\ DOMAIN articles' = DOMAIN articles \cup {nextId}
                          /\ articles'[nextId].author \in {None, J}
                 /\ (response'.op = "create_newsletter"
                        /\ response'.outcome = "ok")
                       => /\ Len(newsletters') = Len(newsletters) + 1
                          /\ newsletters'[Len(newsletters')].author = J]_vars

\* Journalist j2 got a validation error for a newsletter while an article and
\* a newsletter of journalist j1 are stored.
C38_Witness ==
    /\ response.op = "create_newsletter"
    /\ response.actor = "j2"
    /\ response.outcome = "invalid"
    /\ Len(newsletters) = 1
    /\ newsletters[1].author = "j1"
    /\ \E a \in DOMAIN articles : articles[a].author = "j1"

(* ---------------------------------------------------------------------- *)
(* Properties of SpecRead                                                  *)
(* ---------------------------------------------------------------------- *)
\* The view_article rule: the article is approved, or the actor is an
\* editor, or the actor is the journalist who is its author.
ViewRule(u, row) ==
    \/ row.approved
    \/ u \in Editors
    \/ u \in Journalists /\ row.author = u

\* C14: for every actor, unauthenticated included, and every stored article,
\* a request to view the article (GET /api/articles/<id>/, article_detail)
\* is allowed if and only if the article is approved, or the actor is an
\* editor, or the actor is the journalist who is its author.
C14_ViewPolicy ==
    [][\A u \in Actors, a \in DOMAIN articles :
          (ApiRetrieve(u, a) \/ WebDetail(u, a))
              => (response'.outcome = "ok" <=> ViewRule(u, articles[a]))]_vars

\* The view_article rule decides the requests of the authenticated users.
ViewPolicyAuthenticated ==
    [][\A u \in Users, a \in DOMAIN articles :
          (ApiRetrieve(u, a) \/ WebDetail(u, a))
              => (response'.outcome = "ok" <=> ViewRule(u, articles[a]))]_vars

\* C36: for every authenticated user (reader, journalist, editor), every
\* approval state and every authorship relation between user and article,
\* the article_detail view allows the request exactly when the API permission
\* CanViewArticle allows the user to view the article.
C36_DetailAgreesWithPermission ==
    [][(response'.op = "detail" /\ response'.actor \in Users)
          => \A a \in DOMAIN articles :
                WebDetail(response'.actor, a)
                    => /\ response'.outcome \in {"ok", "forbidden"}
                       /\ response'.outcome = "ok"
                             <=> CanViewArticle(response'.actor,
                                                articles[a])]_vars

\* A journalist was refused a view while every stored article is a pending
\* article of the other journalist.
C36_Witness ==
    /\ response.op = "detail"
    /\ response.actor = "j2"
    /\ response.outcome = "forbidden"
    /\ \A a \in DOMAIN articles :
          ~articles[a].approved /\ articles[a].author = "j1"
    /\ DOMAIN articles = FeedIds

\* The primary keys of a listing.
Listed == {listing'[i] : i \in 1..Len(listing')}

\* C19: the feed a reader gets (GET /api/articles/subscribed/) holds exactly
\* the approved articles whose author is in the reader's subscribed
\* journalists or whose publisher is in the reader's subscribed publishers,
\* each once, the newest first, as the store and the subscriptions are when
\* the request is served; with no subscriptions it is empty.
C19_Feed ==
    [][(response'.op = "feed" /\ response'.actor \in Readers)
          => LET u == response'.actor
             IN  /\ response'.outcome = "ok"
                 /\ Listed =
                       {a \in DOMAIN articles :
                           /\ articles[a].approved
                           /\ \/ articles[a].author \in subscribed_journalists[u]
                              \/ articles[a].publisher \in subscribed_publishers[u]}
                 /\ Len(listing') = Cardinality(Listed)
                 /\ \A i, j \in 1..Len(listing') :
                       i < j => listing'[i] > listing'[j]
                 /\ (subscribed_journalists[u] = {}
                        /\ subscribed_publishers[u] = {})
                       => listing' = <<>>]_vars

C19_Witness ==
    /\ response.op = "feed"
    /\ response.actor \in Readers
    /\ Len(listing) = 2
    /\ listing[1] > listing[2]
    /\ \A a \in DOMAIN articles : articles[a].approved

\* C20: the list a user gets (GET /api/articles/) holds exactly, each once:
\* for a reader the approved articles, for an editor every article, for a
\* journalist the journalist's own articles and the approved ones; no pending
\* article is in a reader's list.
C20_ListByRole ==
    [][response'.op = "list"
          => LET u == response'.actor
                 Approved == {a \in DOMAIN articles : articles[a].approved}
                 Own == {a \in DOMAIN articles : articles[a].author = u}
             IN  /\ Len(listing') = Cardinality(Listed)
                 /\ u \in Readers => Listed = Approved
                 /\ u \in Editors => Listed = DOMAIN articles
                 /\ u \in Journalists => Listed = Own \cup Approved]_vars

C20_Witness ==
    /\ response.op = "list"
    /\ response.actor \in Readers
    /\ Len(listing) = 1
    /\ \E a \in DOMAIN articles : ~articles[a].approved

(* ---------------------------------------------------------------------- *)
(* Properties of SpecNotify                                                *)
(* ---------------------------------------------------------------------- *)
\* The users article a's approval is to be mailed to: subscribed to its
\* author if it has one, else to its publisher; readers; active; with an
\* email address.
Addressees(a) ==
    {u \in Users :
        /\ IF articles[a].author # None
           THEN articles[a].author \in subscribed_journalists[u]
           ELSE articles[a].publisher \in subscribed_publishers[u]
        /\ u \in Readers
        /\ accounts[u].is_active
        /\ accounts[u].has_email}

\* C21: when an article is approved, the email is addressed to exactly the
\* users who are subscribed to the article's source (its author if it has
\* one, else its publisher), are readers, are active and have a non-empty
\* email address; when there is no such user no email is sent and the
\* request does not fail.
C21_EmailRecipients ==
    [][\A a \in DOMAIN articles :
          (~articles[a].approved /\ articles'[a].approved)
              => /\ response'.outcome = "ok"
                 /\ IF Addressees(a) = {}
                    THEN response'.email = "skipped" /\ outbox' = {}
                    ELSE /\ response'.email \in {"sent", "raised"}
                         /\ outbox' = Addressees(a)]_vars

C21_Witness ==
    /\ response.op = "approve"
    /\ response.email = "sent"
    /\ outbox = {"r1"}
    /\ subscribed_journalists["e1"] = {"j1"}
    /\ articles[1].author = "j1"

\* C27: when one of the four social-post credentials is absent from the
\* settings or is its placeholder value, an approval posts nothing and no
\* error of the social channel is raised: a step in which the post is made or
\* fails is a step of no approval that runs under such settings. Whatever the
\* settings, the article is approved by the requesting editor, the response
\* is a success and the email channel is tried as usual.
C27_NoCredentialsNoPost ==
    [][(response'.op = "approve" /\ ~articles[1].approved
           /\ articles'[1].approved)
          => /\ response'.tweet \in {"posted", "raised"}
                   => \A s \in SettingsValues, mail \in {"ok", "fail"},
                         api \in {"created", "failed"} :
                         ApproveNotify(response'.actor, 1, s, mail, api)
                             => \A k \in TwitterKeys : s[k] = "real"
             /\ response'.outcome = "ok"
             /\ articles'[1].approved_by = response'.actor
             /\ response'.email \in {"skipped", "sent", "raised"}
             /\ response'.email = "skipped" <=> Addressees(1) = {}]_vars

C27_Witness ==
    /\ response.op = "approve"
    /\ response.outcome = "ok"
    /\ response.tweet = "skipped"
    /\ response.email = "sent"
    /\ articles[1].approved

(* ---------------------------------------------------------------------- *)
(* Properties of SpecTweet                                                 *)
(* ---------------------------------------------------------------------- *)
\* C22: for every article title, source name and content, the text composed
\* for the social post is at most 250 characters long.
C22_TweetWithinLimit == tweet_text.text <= 250

\* The composed text is within the limit when title and source name leave
\* room: the excerpt never runs over.
TweetWithinLimitShortHead ==
    tweet_text.title + tweet_text.source_name + 7 <= 250
        => tweet_text.text <= 250

\* The characters that remain after the title and the source attribution of
\* the composed post, and the length of the excerpt that was added.
RemainingAfterHead ==
    max_length - (tweet_text.title + tweet_text.source_name + 7)

ExcerptLength ==
    tweet_text.text - (tweet_text.title + tweet_text.source_name + 7)

\* C34: the content excerpt is skipped exactly when fewer than 50 characters
\* remain after the title and the source attribution; when 50 or more remain,
\* an excerpt is included and it fits in the remaining space.
C34_ExcerptRule ==
    tweet_text # NoTweet
        => /\ RemainingAfterHead < 50 => ExcerptLength = 0
           /\ RemainingAfterHead >= 50
                 => (ExcerptLength > 0 /\ ExcerptLength <= RemainingAfterHead)

\* What the code does: the excerpt is skipped when 50 or fewer characters
\* remain, and an included excerpt fits.
ExcerptRuleAbove50 ==
    tweet_text # NoTweet
        => /\ RemainingAfterHead <= 50 => ExcerptLength = 0
           /\ RemainingAfterHead > 50
                 => (ExcerptLength > 0 /\ ExcerptLength <= RemainingAfterHead)

(* ---------------------------------------------------------------------- *)
(* Properties of SpecLetters                                               *)
(* ---------------------------------------------------------------------- *)
\* A newsletter view answered with the newsletter.
NewsletterViewed ==
    /\ response'.op \in {"newsletter_detail", "retrieve_newsletter"}
    /\ response'.outcome = "ok"

\* C23: when a reader views a newsletter (HTML detail view or API
\* representation), the articles shown are exactly the newsletter's approved
\* articles; an editor or a journalist is shown all of the newsletter's
\* articles.
C23_ReaderSeesApprovedOnly ==
    [][NewsletterViewed
          => LET nl == newsletters[newsletter_data'.id]
                 u == response'.actor
                 Visible == IF u \in Readers
                            THEN {a \in nl.articles : articles[a].approved}
                            ELSE nl.articles
             IN  /\ newsletter_data'.articles = Visible
                 /\ response'.op = "retrieve_newsletter"
                       => /\ newsletter_data'.articles_summary = Visible
                          /\ newsletter_data'.article_count
                                = Cardinality(Visible)]_vars

\* The articles of the HTML view and the articles_summary of the API
\* representation are the approved ones for a reader and all for the others.
NewsletterSummaryFiltered ==
    [][NewsletterViewed
          => LET nl == newsletters[newsletter_data'.id]
                 u == response'.actor
                 Visible == IF u \in Readers
                            THEN {a \in nl.articles : articles[a].approved}
                            ELSE nl.articles
             IN  IF response'.op = "retrieve_newsletter"
                 THEN newsletter_data'.articles_summary = Visible
                 ELSE newsletter_data'.articles = Visible]_vars

(* ---------------------------------------------------------------------- *)
(* Properties of Spec: edits and failed operations                         *)
(* ---------------------------------------------------------------------- *)
\* C24: once an article is approved, an edit of it by an editor or by the
\* journalist who is its author leaves approved, approved_by and approved_at
\* as they are (title and content can change).
C24_EditKeepsApproval ==
    [][\A a \in ArticleIds :
          (/\ response'.op = "update"
           /\ response'.outcome = "ok"
           /\ Exists(a)
           /\ articles[a].approved)
              => /\ articles'[a].approved = articles[a].approved
                 /\ articles'[a].approved_by = articles[a].approved_by
                 /\ articles'[a].approved_at = articles[a].approved_at]_vars

\* C33: in every reachable state the approved_by and approved_at of an article
\* are both set if and only if its approved flag is true.
C33_ApprovalFieldsMatchFlag ==
    \A a \in DOMAIN articles :
        (articles[a].approved_by # None /\ articles[a].approved_at # NoTime)
            <=> articles[a].approved

\* The part that the approve handlers keep: an article they answered with ok
\* is stored approved with both fields set.
ApprovedByHandlerHasFields ==
    [][(response'.op = "approve" /\ response'.outcome = "ok")
          => \A a \in DOMAIN articles' :
                /\ articles'[a].approved
                /\ articles'[a].approved_by = response'.actor
                /\ articles'[a].approved_at # NoTime]_vars

\* C35: whenever a save of an existing article turns its stored approved flag
\* from false to true, whichever handler performs it, the fan-out is tried
\* during that save, the email channel first and the social post only after
\* the email channel returned; a save of an article that is stored approved
\* already tries neither channel.
C35_FanOutOncePerApproval ==
    [][\A a \in ArticleIds :
          (a \in DOMAIN articles /\ a \in DOMAIN articles')
              => /\ (~articles[a].approved /\ articles'[a].approved)
                       => /\ response'.email \in {"sent", "skipped", "raised"}
                          /\ response'.tweet # "none"
                                => response'.email \in {"sent", "skipped"}
                 /\ articles[a].approved
                       => /\ response'.email = "none"
                          /\ response'.tweet = "none"]_vars

\* An update request (no approve handler) has approved the article and the
\* channels were tried during its save.
C35_Witness ==
    /\ response.op = "update"
    /\ response.outcome = "ok"
    /\ response.email = "sent"
    /\ response.tweet = "posted"
    /\ \E a \in DOMAIN articles :
          articles[a].approved /\ articles[a].approved_by = None

(* ---------------------------------------------------------------------- *)
(* Properties of SpecSubs                                                  *)
(* ---------------------------------------------------------------------- *)
\* C25: a journalist-subscription toggle whose target user is no journalist
\* is rejected and changes no subscription set; in every reachable state
\* every member of every user's subscribed_journalists is a journalist.
C25_JournalistTargetsOnly ==
    /\ [](\A u \in Users : \A j \in subscribed_journalists[u] :
              role[j] = JOURNALIST)
    /\ [][\A u \in Actors, j \in Users :
             (ToggleJournalist(u, j) /\ role[j] # JOURNALIST)
                 => /\ response'.outcome \in
                          {"not_found", "readers_only", "unauthenticated"}
                    /\ subscribed_journalists' = subscribed_journalists
                    /\ subscribed_publishers' = subscribed_publishers]_vars

C25_Witness ==
    /\ response.op = "toggle_journalist"
    /\ response.actor \in Readers
    /\ response.outcome = "not_found"
    /\ subscribed_journalists[response.actor] # {}

\* C37: after any sequence of toggle requests by users of any role, only
\* readers have a non-empty subscribed_publishers or subscribed_journalists
\* set; a toggle request by an editor or a journalist is turned away and
\* changes no subscription set.
C37_OnlyReadersSubscribe ==
    /\ [](\A u \in Users :
             (subscribed_publishers[u] # {} \/ subscribed_journalists[u] # {})
                 => role[u] = READER)
    /\ [][\A u \in Editors \cup Journalists :
             (\/ \E p \in Publishers \cup {NoRow} : TogglePublisher(u, p)
              \/ \E j \in Users \cup {NoRow} : ToggleJournalist(u, j))
                 => /\ response'.outcome = "readers_only"
                    /\ subscribed_publishers' = subscribed_publishers
                    /\ subscribed_journalists' = subscribed_journalists]_vars

\* An editor's toggle was turned away while the reader holds subscriptions.
C37_Witness ==
    /\ response.op = "toggle_publisher"
    /\ response.actor \in Editors
    /\ response.outcome = "readers_only"
    /\ subscribed_publishers["r1"] = {"p1"}
    /\ subscribed_journalists["r1"] = {"j1", "j2"}
    /\ \A u \in Users \ Readers :
          subscribed_publishers[u] = {} /\ subscribed_journalists[u] = {}

(* ---------------------------------------------------------------------- *)
(* Properties of SpecValidate                                              *)
(* ---------------------------------------------------------------------- *)
\* C26: validation of a user rejects every user who is no reader (an editor
\* or a journalist) and has a non-empty subscribed_publishers or
\* subscribed_journalists set.
C26_NonReaderSubscriptionsRejected ==
    (/\ response.op = "validate"
     /\ response.actor \notin Readers
     /\ \/ subscribed_publishers[response.actor] # {}
        \/ subscribed_journalists[response.actor] # {})
        => response.outcome = "invalid"

\* Validation rejects every journalist with a subscription, and no reader.
JournalistSubscriptionsRejected ==
    response.op = "validate"
        => /\ (/\ response.actor \in Journalists
               /\ \/ subscribed_publishers[response.actor] # {}
                  \/ subscribed_journalists[response.actor] # {})
                  => response.outcome = "invalid"
           /\ response.actor \in Readers => response.outcome = "ok"

\* The request just answered is one the authorization rules deny: an approve
\* or reject by a user who is no editor, a create by a user who is no
\* journalist, an update or delete by a user who is neither an editor nor the
\* journalist who is the author of the article.
DeniedByPolicy ==
    LET u == response'.actor
    IN  \/ response'.op \in {"approve", "reject"} /\ u \notin Editors
        \/ response'.op = "create" /\ u \notin Journalists
        \/ /\ response'.op \in {"update", "delete"}
           /\ u \notin Editors
           /\ \A a \in DOMAIN articles :
                 ~(u \in Journalists /\ articles[a].author = u)

\* C28: an operation that is denied for authorization, or rejected because
\* the article would have both or neither of author and publisher, writes
\* nothing: the stored articles and all their fields are the same after it
\* as before it, and no notification is sent.
C28_FailedOperationWritesNothing ==
    [][(\/ DeniedByPolicy
        \/ response'.outcome \in
              {"forbidden", "access_denied", "invalid", "error"})
          => /\ articles' = articles
             /\ nextId' = nextId
             /\ response'.email = "none"
             /\ response'.tweet = "none"]_vars

C28_Witness ==
    /\ response.op = "update"
    /\ response.outcome = "invalid"
    /\ Exists(1)
    /\ articles[1].approved

(* ---------------------------------------------------------------------- *)
(* Properties of SpecRace                                                  *)
(* ---------------------------------------------------------------------- *)
\* C29: an edit of title or content that runs concurrently with an approval
\* of the same article never loses the approval: when both requests are over
\* and the approval has succeeded, the stored article is approved, with the
\* approving editor in approved_by and the approval's time in approved_at.
C29_EditKeepsConcurrentApproval ==
    \A w \in Workers, v \in Workers :
        (/\ pc[w] = "done" /\ pc[v] = "done"
         /\ loc[w].op = "approve" /\ loc[w].outcome = "ok"
         /\ loc[v].op = "update")
            => /\ loc[w].pk \in DOMAIN articles
               /\ articles[loc[w].pk].approved
               /\ articles[loc[w].pk].approved_by = loc[w].actor
               /\ articles[loc[w].pk].approved_at = loc[w].inst.approved_at

\* C30: deletion is terminal: an article that has been deleted (every article
\* of SpecRace is stored at the start and none is created) is never stored
\* again, whatever the requests do that read it before the deletion.
C30_DeletionTerminal ==
    [][\A a \in ArticleIds :
          a \notin DOMAIN articles => a \notin DOMAIN articles']_vars

(* ---------------------------------------------------------------------- *)
(* Properties of SpecAuthor                                                *)
(* ---------------------------------------------------------------------- *)
\* A create request of journalist u that names no author: a POST to the API
\* whose payload has no author key, or the journalists' create form (which
\* has no author field).
CreateWithoutAuthor(u) ==
    \/ /\ IsJournalist(u)
       /\ \E d \in CreateData : d.author = Absent /\ ApiCreateData(u, d)
    \/ /\ is_journalist(u)
       /\ WebCreate(u)

\* C31: when a journalist creates an article without specifying an author,
\* with or without a publisher, by the API or by the create view, the article
\* is created, with the journalist as its author and approved = false.
C31_JournalistCreateSetsAuthor ==
    [][\A u \in Journalists :
          (CreateWithoutAuthor(u) /\ nextId \in ArticleIds)
              => /\ response'.outcome = "ok"
                 /\ nextId \in DOMAIN articles'
                 /\ articles'[nextId].author = u
                 /\ ~articles'[nextId].approved]_vars

\* What the create handlers do with such a request: it is answered with a
\* validation error or ends in an exception of save(), and stores nothing.
CreateWithoutAuthorStoresNothing ==
    [][\A u \in Journalists :
          (\E d \in CreateData :
              d.author = Absent /\ d.title # Absent /\ ApiCreateData(u, d))
              => /\ response'.outcome \in {"invalid", "error"}
                 /\ UNCHANGED <<articles, nextId>>]_vars

(* ---------------------------------------------------------------------- *)
(* Properties of SpecToggle                                                *)
(* ---------------------------------------------------------------------- *)
\* Every subscription edge but the one from user u to target t is the same
\* before and after the step.
OtherEdgesUnchanged(u, t) ==
    /\ \A v \in Users, q \in Publishers :
          (v # u \/ q # t) =>
              (q \in subscribed_publishers'[v] <=> q \in subscribed_publishers[v])
    /\ \A v \in Users, q \in Users :
          (v # u \/ q # t) =>
              (q \in subscribed_journalists'[v]
                  <=> q \in subscribed_journalists[v])

\* C32: a toggle by a reader on a publisher or a journalist flips exactly that
\* edge: the reader is subscribed afterwards iff they were not before, every
\* other edge of every user is unchanged, and a second toggle on the same
\* target gives the original set back.
C32_ToggleFlipsOneEdge ==
    [][/\ \A u \in Readers, p \in Publishers :
             TogglePublisher(u, p)
                 => /\ response'.outcome = "ok"
                    /\ p \in subscribed_publishers'[u]
                          <=> p \notin subscribed_publishers[u]
                    /\ OtherEdgesUnchanged(u, p)
                    /\ toggle_subscription(subscribed_publishers'[u], p)
                          = subscribed_publishers[u]
       /\ \A u \in Readers, j \in Journalists :
             ToggleJournalist(u, j)
                 => /\ response'.outcome = "ok"
                    /\ j \in subscribed_journalists'[u]
                          <=> j \notin subscribed_journalists[u]
                    /\ OtherEdgesUnchanged(u, j)
                    /\ toggle_subscription(subscribed_journalists'[u], j)
                          = subscribed_journalists[u]]_vars

\* A reader has unsubscribed from one journalist and is still subscribed to
\* the other, next to an editor who holds subscriptions.
C32_Witness ==
    /\ response.op = "toggle_journalist"
    /\ response.actor = "r1"
    /\ response.outcome = "ok"
    /\ subscribed_journalists["r1"] = {"j2"}
    /\ subscribed_publishers["r1"] = {"p1"}
    /\ subscribed_journalists["e1"] = {"j1"}

====
